---- MODULE Spec2Model ----
(***************************************************************************)
(* The task lifecycle of the two A2A agents of this repository:            *)
(*   - CompanyExpertExecutor (src/first_agent.py), the callee;             *)
(*   - ManagerAgentExecutor  (src/manager_agent.py), the caller, which     *)
(*     consults the expert through _consult_expert (send_message, then a   *)
(*     bounded get_task poll loop).                                        *)
(* One manager task and the expert task its consultation creates are       *)
(* modelled.  Each action is the code between two suspension points        *)
(* (await) of the single-threaded event loop.                              *)
(*                                                                         *)
(* Texts are strings.  The user-facing literals of the source are Russian; *)
(* they are rendered here in ASCII, the f-string structure is kept.        *)
(***************************************************************************)
EXTENDS Integers, Sequences, FiniteSets, TLC

\* ------------------------------------------------------------------ bounds
\* how many cancel requests the request handler receives per task
MaxCancels == 1
\* how many Task Updater calls may raise in one run
MaxFaults == 1
\* how many get-task requests another client sends for the expert task
MaxReads == 2
\* the largest max_wait_time a test passes to wait_for_task_completion, beside
\* the default
MaxWaitTime == 2

\* ------------------------------------------------------- program constants
\* manager_agent.py:190
max_attempts == 20
\* manager_agent.py:108, expert_info[:500]
InfoSlice == 500
\* manager_agent.py:196, asyncio.sleep(0.5), in tenths of a second
SleepTenths == 5
\* test.py:30, the default of max_wait_time
max_wait_time == 30
\* test.py:54, asyncio.sleep(1) after a poll that raised, in tenths of a second
ErrorSleepTenths == 10

\* ------------------------------------------------------------- task states
TerminalStates == {"completed", "failed", "canceled", "rejected"}

\* a2a Message with its ordered parts; status.message is None when absent
NoMessage == [present |-> FALSE, parts |-> <<>>]
\* task_updater.new_agent_message(parts=[TextPart(text=...)])
new_agent_message(text) == [present |-> TRUE, parts |-> <<text>>]

\* ------------------------------------------------------------------- texts
\* first_agent.py:33-55 (line breaks written as spaces)
COMPANY_DATA ==
    " Our company 'AI Solutions Corp' specialises in developing advanced AI solutions for businesses. "
 \o " The main products are: 1. Document Analyzer - Automated document and invoice processing system "
 \o "   - Uses OCR and NLP for data extraction    - Integrates with ERP systems "
 \o "   - 99.7% recognition accuracy    - Price: from $5,000/month for basic version "
 \o "   - Supports formats: PDF, JPG, PNG, TIFF    - Processing time: up to 1000 documents per hour "
 \o " 2. Vision AI - warehouse monitoring and inventory solution "
 \o "   - Computer vision for tracking goods    - Automatic inventory update "
 \o "   - Anomaly and shortage detection    - Price: from $8,000/month "
 \o "   - Camera support: IP cameras, USB cameras    - Detection accuracy: 98.5% "
 \o " Founded in 2020, over 500 successful implementations, offices in 15 countries. "
 \o " 24/7 technical support, 30 days money back guarantee. "

\* the client emails a manager task may carry (test.py:11-28)
Emails == {"My name is Sarah Jones, Operations Manager at Global Retail Express. Details and a demo?"}

\* str(response) of expert_agent.run: what the reasoning step may answer
ExpertAnswers == {"Document Analyzer from $5,000/month, Vision AI from $8,000/month.", ""}

\* str(e) of the exceptions the environment may raise
ReadError == "list index out of range"
UpdaterError == "event queue error"
ReasoningError == "model request failed"
TimeoutErrorText == "timed out"

\* python str.strip(): leading and trailing whitespace removed
IsSpace(c) == c \in {" ", "\n", "\t", "\r"}

RECURSIVE LStrip(_)
LStrip(s) ==
    IF Len(s) = 0 THEN s
    ELSE IF IsSpace(SubSeq(s, 1, 1)) THEN LStrip(SubSeq(s, 2, Len(s)))
    ELSE s

RECURSIVE RStrip(_)
RStrip(s) ==
    IF Len(s) = 0 THEN s
    ELSE IF IsSpace(SubSeq(s, Len(s), Len(s))) THEN RStrip(SubSeq(s, 1, Len(s) - 1))
    ELSE s

Strip(s) == LStrip(RStrip(s))

\* python s[:n]
Slice(s, n) == IF Len(s) <= n THEN s ELSE SubSeq(s, 1, n)

\* ------------------------------------------------- texts the expert builds
\* first_agent.py:120
ExpertFallbackText(user_message) ==
    "Question received: " \o user_message \o "\n\n" \o COMPANY_DATA

\* first_agent.py:138
ExpertFailText(e) == "Error while processing the request: " \o e

\* ------------------------------------------------ texts the manager builds
\* manager_agent.py:158-164
expert_query(client_email) ==
    "\n Analyse this customer email and provide details of our products that can help:\n\n "
 \o client_email
 \o "\n\n Especially interested in information about Document Analyzer and Vision AI."
 \o " Don't write a return email, just tell us about our products.\n "

\* manager_agent.py:147
ManagerFailText(e) == "Error while processing the email: " \o e

\* manager_agent.py:221
StatusPlaceholder(state) == "Could not get an answer from the expert. Status: " \o state

\* manager_agent.py:223
NoResultText == "Error while creating the task for the expert."

\* manager_agent.py:227
ConnectPlaceholder == "The expert is temporarily unavailable. Using basic product information."

\* manager_agent.py:231
CommErrorText(e) == "Error communicating with the expert: " \o e \o ". Using basic information."

\* what manager_agent.run may answer (ManagerResponse, manager_agent.py:33-40)
Replies ==
    { [client_name |-> "Sarah Jones",
       response_subject |-> "Re: Inquiry about AI Solutions",
       response_body |-> "Dear Sarah, our Document Analyzer and Vision AI fit your needs. "] }

\* manager_agent.py:100-114, the reply used when manager_agent.run raises
FallbackReply(expert_info) ==
    [client_name |-> "Sarah Jones",
     response_subject |-> "Re: Inquiry about AI Solutions for E-commerce Logistics",
     response_body |->
           "Thank you for your interest in our AI solutions!\n\n"
        \o " I understand that Global Retail Express is facing challenges in document processing"
        \o " and inventory management.\n\n Based on information from our expert:\n "
        \o Slice(expert_info, InfoSlice) \o "...\n\n"
        \o " Our Document Analyzer and Vision AI solutions are perfect for your challenges. \n"
        \o " Let's schedule a demo to show you how they can help your business.\n\n"
        \o " When would be a good time for you to give an online presentation?"]

\* manager_agent.py:116-127: header block, body, signature block, stripped
HeaderBlock(reply) ==
    "To: " \o reply.client_name
 \o "\n From: AI Solutions Corp Sales Team"
 \o "\n Subject: " \o reply.response_subject

SignatureBlock ==
    "Best regards,\n AI Solutions Corp Team\n Sales Department"
 \o "\n Email: sales@aisolutions.corp\n Phone: +1-555-AI-SOLUTIONS"

\* the template without its signature block
final_response_NoSignature(reply) ==
    Strip(HeaderBlock(reply) \o "\n\n " \o reply.response_body)

final_response(reply) ==
    Strip(HeaderBlock(reply) \o "\n\n " \o reply.response_body \o "\n\n "
          \o SignatureBlock \o "\n ")

\* ------------------------------------------------------------------- state
\* the ids the expert's request handler may give the task it creates (a uuid)
ExpertIds == {"e1", "e2"}
\* no task id
NoId == "-"

VARIABLES
    mgr,      \* the manager task: ManagerAgentExecutor.execute and its locals
    exp,      \* the expert task: CompanyExpertExecutor.execute and its locals
    faults,   \* Task Updater calls that may still raise
    reads,    \* what a client's get-task requests for the expert task returned
    tool,     \* the last tool call of the expert's reasoning step
    wait,     \* wait_for_task_completion of the test client and its locals
    duo       \* two manager tasks that run at once, and their expert tasks

vars == <<mgr, exp, faults, reads, tool, wait, duo>>

\* the record InMemoryTaskStore holds for a task and get-task returns
StoreRecord(state, message) == [state |-> state, message |-> message]

\* a task the request handler has not created yet
NoExpertTask ==
    [pc |-> "none", id |-> NoId, closed |-> FALSE, queue |-> "handler", calls |-> <<>>,
     store |-> StoreRecord("submitted", NoMessage), cancels |-> 0,
     message |-> [well_formed |-> TRUE, text |-> ""], sender |-> "none",
     user_message |-> "", reasoning |-> "none", error |-> "", propagated |-> FALSE]

NoManagerTask ==
    [pc |-> "none", closed |-> FALSE, queue |-> "handler", calls |-> <<>>,
     store |-> StoreRecord("submitted", NoMessage), cancels |-> 0,
     message |-> [well_formed |-> TRUE, text |-> ""],
     client_email |-> "", sent |-> FALSE,
     expert_task |-> [id |-> NoId, state |-> "submitted", message |-> NoMessage],
     attempts |-> 0, gets |-> 0, sleeps |-> 0, slept |-> 0, polled |-> FALSE,
     expert_info |-> "",
     consult |-> "none", loop_exit |-> "none", attempts_left |-> FALSE,
     reasoning |-> "none", error |-> "", propagated |-> FALSE]

\* ------------------------------------------------ Task Updater, Event Queue
\* TaskUpdater(event_queue, task_id, context_id).update_status(state, message):
\* one status event pushed onto `queue`.  The updater holds the queue and the
\* ids only; the task store belongs to the request handler, which drains the
\* queue it handed to the executor ("handler").  A queue the executor created
\* itself ("fresh") is known to the executor alone.  raised: the call raised
\* and pushed nothing.
update_status(task, queue, state, message, by, raised) ==
    [task EXCEPT
        !.calls = Append(@, [state |-> state, message |-> message, by |-> by,
                             queue |-> queue, raised |-> raised]),
        !.store = IF raised \/ queue # "handler" THEN @
                  ELSE StoreRecord(state, message)]

\* the status events of a task that were pushed, in order, by anyone
Pushed(task) == SelectSeq(task.calls, LAMBDA c : ~c.raised)
\* the sequence of states recorded for a task
States(task) == [i \in 1..Len(Pushed(task)) |-> Pushed(task)[i].state]
\* the Task Updater calls of execute alone (not cancel)
ByExecute(task) == SelectSeq(task.calls, LAMBDA c : c.by = "execute")

\* -------------------------------------------------- both executors: execute
\* an except handler that ends execute without reporting anything
ReportFailure_Silent(task, text, e, raises) ==
    [task EXCEPT !.pc = "done", !.error = e]

\* an except handler without the try around its own update: when the update
\* to failed raises, the exception leaves execute
ReportFailure_Propagates(task, text, e, raises) ==
    [update_status(task, task.queue, "failed", new_agent_message(text), "execute", raises)
        EXCEPT !.pc = "done", !.error = e, !.propagated = raises]

\* the except handler of execute: first_agent.py:131-142, manager_agent.py:138-152.
\* A new updater on the current queue reports failed with the error text; if
\* that raises too, it is printed and swallowed.  propagated: an exception
\* left execute or cancel and reached the request handler.
ReportFailure(task, text, e, raises) ==
    [update_status(task, task.queue, "failed", new_agent_message(text), "execute", raises)
        EXCEPT !.pc = "done", !.error = e]

\* Task Updater calls that raise in a run of the first part of execute
FaultsUsed(failAt, reportRaises) ==
    (IF failAt \in {"submit", "start_work"} THEN 1 ELSE 0)
  + (IF failAt # "none" /\ reportRaises THEN 1 ELSE 0)

\* execute with start_work called before submit
Begin_WorkBeforeSubmit(task, closed, failAt) ==
    LET q  == IF closed THEN "fresh" ELSE "handler"
        t0 == [task EXCEPT !.queue = q, !.closed = closed]
        t1 == update_status(t0, q, "working", NoMessage, "execute", failAt = "start_work")
    IN  IF failAt = "start_work" THEN t1
        ELSE update_status(t1, q, "submitted", NoMessage, "execute", failAt = "submit")

\* execute without the closed-queue check: every update goes to the queue
\* execute was handed
Begin_NoRecovery(task, closed, failAt) ==
    LET t0 == [task EXCEPT !.closed = closed]
        t1 == update_status(t0, "handler", "submitted", NoMessage, "execute",
                            failAt = "submit")
    IN  IF failAt = "submit" THEN t1
        ELSE update_status(t1, "handler", "working", NoMessage, "execute",
                           failAt = "start_work")

\* first_agent.py:101-112, manager_agent.py:57-70: the closed-queue check,
\* submit, start_work, the read of the input text.  closed: is_closed() of
\* the queue execute was handed; when it holds, execute goes on with an
\* EventQueue() of its own and a Task Updater on it for the same task.
Begin(task, closed, failAt) ==
    LET q  == IF closed THEN "fresh" ELSE "handler"
        t0 == [task EXCEPT !.queue = q, !.closed = closed]
        t1 == update_status(t0, q, "submitted", NoMessage, "execute", failAt = "submit")
    IN  IF failAt = "submit" THEN t1
        ELSE update_status(t1, q, "working", NoMessage, "execute", failAt = "start_work")

\* the exception the first part of execute ends with
BeginError(failAt) == IF failAt = "read_message" THEN ReadError ELSE UpdaterError

\* where the first part of execute raises: a Task Updater call that raises,
\* else context.message.parts[0].root.text on a message without a text part
FailAt(task, updaterFail) ==
    IF updaterFail # "none" THEN updaterFail
    ELSE IF ~task.message.well_formed THEN "read_message"
    ELSE "none"

\* a cancel that also ends the execute of the task
cancel_Interrupts(task, raises) ==
    [update_status(task, "handler", "canceled", NoMessage, "cancel", raises)
        EXCEPT !.cancels = @ + 1, !.pc = "done"]

\* cancel of either executor: first_agent.py:144-150, manager_agent.py:233-240.
\* One update_status(canceled) with no message, on the queue the request
\* handler passes to cancel; an exception is printed and swallowed.
cancel(task, raises) ==
    [update_status(task, "handler", "canceled", NoMessage, "cancel", raises)
        EXCEPT !.cancels = @ + 1]

\* the messages a client may send: a first part with text, or without any
Requests(texts) ==
    [well_formed : {TRUE}, text : texts] \cup {[well_formed |-> FALSE, text |-> ""]}

\* --------------------------------------------- the expert's tools
\* what a call gives: a value, or an exception with its text
Returns(text) == [raised |-> FALSE, text |-> text]
Raises(text) == [raised |-> TRUE, text |-> text]

\* no tool was called
NoToolCall == [name |-> "none", input |-> "", main |-> FALSE, raised |-> FALSE, text |-> ""]

Digits == <<"0", "1", "2", "3", "4", "5", "6", "7", "8", "9">>
IsDigit(c) == \E d \in 1..10 : Digits[d] = c
DigitValue(c) == CHOOSE d \in 0..9 : Digits[d + 1] = c
IsNumber(s) == Len(s) > 0 /\ \A i \in 1..Len(s) : IsDigit(SubSeq(s, i, i))

\* an integer literal with an optional sign
IsLiteral(s) ==
    \/ IsNumber(s)
    \/ Len(s) > 1 /\ SubSeq(s, 1, 1) = "-" /\ IsNumber(SubSeq(s, 2, Len(s)))

\* python int(s) of a string of digits
RECURSIVE NumberValue(_)
NumberValue(s) ==
    IF Len(s) = 0 THEN 0
    ELSE 10 * NumberValue(SubSeq(s, 1, Len(s) - 1)) + DigitValue(SubSeq(s, Len(s), Len(s)))

LiteralValue(s) ==
    IF SubSeq(s, 1, 1) = "-" THEN 0 - NumberValue(SubSeq(s, 2, Len(s))) ELSE NumberValue(s)

\* python str(n) of an int, as the f-string formats the result
RECURSIVE str(_)
str(n) ==
    IF n < 0 THEN "-" \o str(0 - n)
    ELSE IF n < 10 THEN Digits[n + 1]
    ELSE str(n \div 10) \o Digits[(n % 10) + 1]

\* the characters of a python name
NameChars ==
    {"a", "b", "c", "d", "e", "f", "g", "h", "i", "j", "k", "l", "m", "n", "o", "p",
     "q", "r", "s", "t", "u", "v", "w", "x", "y", "z", "_"}
IsName(s) == Len(s) > 0 /\ \A i \in 1..Len(s) : SubSeq(s, i, i) \in NameChars

\* the places of character c in s
Places(s, c) == {i \in 1..Len(s) : SubSeq(s, i, i) = c}
Min(S) == CHOOSE x \in S : \A y \in S : x <= y
Max(S) == CHOOSE x \in S : \A y \in S : x >= y

\* first_agent.py:70-72: the builtins eval may use
allowed_names == {"abs", "min", "max", "round", "sum"}

SyntaxErrorText == "invalid syntax (<string>, line 1)"
NameErrorText(name) == "name '" \o name \o "' is not defined"

\* a call name(a) or name(a,b) with integer literals, the name looked up first
Call(name, args, names) ==
    LET commas == Places(args, ",")
        a == IF commas = {} THEN args ELSE SubSeq(args, 1, Min(commas) - 1)
        b == IF commas = {} THEN "" ELSE SubSeq(args, Min(commas) + 1, Len(args))
        one == commas = {} /\ IsLiteral(a)
        two == commas # {} /\ IsLiteral(a) /\ IsLiteral(b)
    IN  IF name \notin names THEN Raises(NameErrorText(name))
        ELSE IF name = "abs" /\ one
        THEN Returns(str(IF LiteralValue(a) < 0 THEN 0 - LiteralValue(a) ELSE LiteralValue(a)))
        ELSE IF name = "round" /\ one THEN Returns(str(LiteralValue(a)))
        ELSE IF name = "sum" /\ one THEN Raises("'int' object is not iterable")
        ELSE IF name = "min" /\ two THEN Returns(str(Min({LiteralValue(a), LiteralValue(b)})))
        ELSE IF name = "max" /\ two THEN Returns(str(Max({LiteralValue(a), LiteralValue(b)})))
        ELSE Raises(SyntaxErrorText)

\* a op b with integer literals; / is python's true division
Arithmetic(a, op, b) ==
    IF ~(IsLiteral(a) /\ IsLiteral(b)) THEN Raises(SyntaxErrorText)
    ELSE IF op = "+" THEN Returns(str(LiteralValue(a) + LiteralValue(b)))
    ELSE IF op = "-" THEN Returns(str(LiteralValue(a) - LiteralValue(b)))
    ELSE IF op = "*" THEN Returns(str(LiteralValue(a) * LiteralValue(b)))
    ELSE IF LiteralValue(b) = 0 THEN Raises("division by zero")
    ELSE IF LiteralValue(a) % LiteralValue(b) = 0 /\ LiteralValue(a) >= 0 /\ LiteralValue(b) > 0
    THEN Returns(str(LiteralValue(a) \div LiteralValue(b)) \o ".0")
    ELSE Raises(SyntaxErrorText)

\* first_agent.py:75, eval(expression, allowed_names) with no other builtins,
\* for expressions of these forms: an integer literal, a call of a name with
\* integer literals, literal op literal; anything else here is not an
\* expression (a statement, a dangling operator)
eval(expression, names) ==
    LET opens == Places(expression, "(")
        ops   == {i \in 2..Len(expression) : SubSeq(expression, i, i) \in {"+", "-", "*", "/"}}
    IN  IF IsLiteral(expression) THEN Returns(str(LiteralValue(expression)))
        ELSE IF /\ opens # {}
                /\ SubSeq(expression, Len(expression), Len(expression)) = ")"
                /\ IsName(SubSeq(expression, 1, Min(opens) - 1))
        THEN Call(SubSeq(expression, 1, Min(opens) - 1),
                  SubSeq(expression, Min(opens) + 1, Len(expression) - 1), names)
        ELSE IF ops # {}
        THEN Arithmetic(SubSeq(expression, 1, Min(ops) - 1),
                        SubSeq(expression, Min(ops), Min(ops)),
                        SubSeq(expression, Min(ops) + 1, Len(expression)))
        ELSE Raises(SyntaxErrorText)

\* first_agent.py:70-75, the body of the try.  main: first_agent.py runs as
\* the script (first_agent.py:208-209), where __builtins__ is the module
\* builtins, which has no items(); in an imported module it is a dict
calculate_body(expression, main) ==
    IF main THEN Raises("module 'builtins' has no attribute 'items'")
    ELSE eval(expression, allowed_names)

\* calculate without its except clause
calculate_NoExcept(expression, main) ==
    IF calculate_body(expression, main).raised
    THEN calculate_body(expression, main)
    ELSE Returns("Result: " \o calculate_body(expression, main).text)

\* first_agent.py:67-78
calculate(expression, main) ==
    IF calculate_body(expression, main).raised
    THEN Returns("Calculation error: " \o calculate_body(expression, main).text)
    ELSE Returns("Result: " \o calculate_body(expression, main).text)

\* the answers and failures of query_engine.aquery (first_agent.py:61)
SearchAnswers == {"Document Analyzer supports PDF, JPG, PNG and TIFF."}
SearchError == "index is not available"

\* first_agent.py:57-65.  engine: "none" when the index could not be loaded
\* (first_agent.py:24-31), else whether aquery returns or raises
search_documents(query, engine) ==
    IF engine = "none" THEN Returns("The document search system is unavailable.")
    ELSE IF engine = "raises" THEN Returns("Document search error: " \o SearchError)
    ELSE Returns(CHOOSE a \in SearchAnswers : TRUE)

\* the expressions and queries the reasoning step may pass to its tools
Expressions ==
    {"7*8", "15+25", "import os", "abs(-3)", "open('x')", "__import__('os')",
     "1/0", "7*", "min(2,3)", "56/8", "3-5", "sum(3)"}
Queries == {"supported formats"}

\* ------------------------------------------ CompanyExpertExecutor.execute
\* first_agent.py:101-113 and, when they raise, 131-142
ExpertExecuteBegin(task, closed, updaterFail, reportRaises) ==
    LET failAt == FailAt(task, updaterFail)
        t      == Begin(task, closed, failAt)
    IN  IF failAt = "none"
        THEN [t EXCEPT !.pc = "run", !.user_message = task.message.text]
        ELSE ReportFailure(t, ExpertFailText(BeginError(failAt)), BeginError(failAt),
                           reportRaises)

\* first_agent.py:115-120: the text of the answer
final_text_response(task, raised, answer) ==
    IF raised THEN ExpertFallbackText(task.user_message) ELSE answer

\* execute without the inner try: a reasoning step that raises fails the task
ExpertExecuteFinish_FailsOnRaise(task, raised, answer, completedRaises, reportRaises) ==
    LET t0 == [task EXCEPT !.reasoning = IF raised THEN "raised" ELSE "ok"]
        t1 == update_status(t0, t0.queue, "completed", new_agent_message(answer),
                            "execute", completedRaises)
    IN  IF raised
        THEN ReportFailure(t0, ExpertFailText(ReasoningError), ReasoningError, reportRaises)
        ELSE IF completedRaises
        THEN ReportFailure(t1, ExpertFailText(UpdaterError), UpdaterError, reportRaises)
        ELSE [t1 EXCEPT !.pc = "done"]

\* first_agent.py:115-129 and, when update_status raises, 131-142
ExpertExecuteFinish(task, raised, answer, completedRaises, reportRaises) ==
    LET t0 == [task EXCEPT !.reasoning = IF raised THEN "raised" ELSE "ok"]
        t1 == update_status(t0, t0.queue, "completed",
                            new_agent_message(final_text_response(task, raised, answer)),
                            "execute", completedRaises)
    IN  IF completedRaises
        THEN ReportFailure(t1, ExpertFailText(UpdaterError), UpdaterError, reportRaises)
        ELSE [t1 EXCEPT !.pc = "done"]

\* the questions another client of the expert may ask (test.py:78)
ClientQuestions == {"Tell us in detail about Document Analyzer and Vision AI products."}

\* the expert's request handler receives a send-message request from another
\* client (test.py:80-91) and creates the task.  The model follows one expert
\* task: this one, or the one the manager's consultation creates.
ClientSend ==
    /\ exp.pc = "none"
    /\ mgr.pc = "none"
    /\ \E msg \in Requests(ClientQuestions), id \in ExpertIds :
         exp' = [NoExpertTask EXCEPT !.pc = "accepted", !.id = id, !.message = msg,
                                     !.sender = "client"]
    /\ UNCHANGED <<mgr, faults, reads, tool, wait, duo>>

\* execute runs up to its first await (expert_agent.run)
E_Begin ==
    /\ exp.pc = "accepted"
    /\ \E closed \in BOOLEAN, updaterFail \in {"none", "submit", "start_work"},
          reportRaises \in BOOLEAN :
         LET failAt == FailAt(exp, updaterFail)
             used   == FaultsUsed(failAt, reportRaises)
         IN  /\ failAt = "none" => ~reportRaises
             /\ used <= faults
             /\ faults' = faults - used
             /\ exp' = ExpertExecuteBegin(exp, closed, updaterFail, reportRaises)
    /\ UNCHANGED <<mgr, reads, tool, wait, duo>>

\* what a tool returned to the reasoning step, which may give it as its answer
ToolTexts == IF tool.name = "none" THEN {} ELSE {tool.text}

\* expert_agent.run returns or raises; execute runs to its end
E_Run ==
    /\ exp.pc = "run"
    /\ \E raised \in BOOLEAN, answer \in ExpertAnswers \cup ToolTexts,
          completedRaises \in BOOLEAN, reportRaises \in BOOLEAN :
         LET used == (IF completedRaises THEN 1 ELSE 0) + (IF reportRaises THEN 1 ELSE 0)
         IN  /\ reportRaises => completedRaises
             /\ used <= faults
             /\ faults' = faults - used
             /\ exp' = ExpertExecuteFinish(exp, raised, answer, completedRaises, reportRaises)
    /\ UNCHANGED <<mgr, reads, tool, wait, duo>>

\* expert_agent.run calls one of its tools (first_agent.py:80-81) and gets its
\* return value
E_Tool ==
    /\ exp.pc = "run"
    /\ \/ \E expression \in Expressions, main \in BOOLEAN :
            tool' = [name |-> "calculate", input |-> expression, main |-> main]
                    @@ calculate(expression, main)
       \/ \E query \in Queries, engine \in {"none", "raises", "ok"}, main \in BOOLEAN :
            tool' = [name |-> "search_documents", input |-> query, main |-> main]
                    @@ search_documents(query, engine)
    /\ UNCHANGED <<mgr, exp, faults, reads, wait, duo>>

\* the request handler calls cancel for a task whose execute has started: at
\* one of its awaits, or after its end
E_Cancel ==
    /\ exp.pc \in {"run", "done"}
    /\ exp.cancels < MaxCancels
    /\ \E raises \in BOOLEAN :
         /\ raises => faults > 0
         /\ faults' = IF raises THEN faults - 1 ELSE faults
         /\ exp' = cancel(exp, raises)
    /\ UNCHANGED <<mgr, reads, tool, wait, duo>>

\* ------------------------------------------- ManagerAgentExecutor.execute
\* an execute that starts the consultation and records completed without
\* waiting for it
ManagerExecuteBegin_NotAwaited(task, closed, updaterFail, reportRaises) ==
    LET failAt == FailAt(task, updaterFail)
        t      == Begin(task, closed, failAt)
    IN  IF failAt = "none"
        THEN [update_status(t, t.queue, "completed",
                            new_agent_message(final_response(FallbackReply(""))),
                            "execute", FALSE)
                EXCEPT !.pc = "card", !.client_email = task.message.text]
        ELSE ReportFailure(t, ManagerFailText(BeginError(failAt)), BeginError(failAt),
                           reportRaises)

\* manager_agent.py:57-73 and, when they raise, 138-152; on success execute
\* enters _consult_expert and awaits get_client_from_agent_card_url (170)
ManagerExecuteBegin(task, closed, updaterFail, reportRaises) ==
    LET failAt == FailAt(task, updaterFail)
        t      == Begin(task, closed, failAt)
    IN  IF failAt = "none"
        THEN [t EXCEPT !.pc = "card", !.client_email = task.message.text]
        ELSE ReportFailure(t, ManagerFailText(BeginError(failAt)), BeginError(failAt),
                           reportRaises)

\* the loop condition with completed as the only state that ends the polling
LoopContinues_OnlyCompleted(expert_task, attempts) ==
    expert_task.state # "completed" /\ attempts < max_attempts

\* manager_agent.py:193-195, the condition of the poll loop
LoopContinues(expert_task, attempts) ==
    expert_task.state \notin TerminalStates /\ attempts < max_attempts

\* the return value cut like the text that is printed (expert_response[:100])
ConsultResult_Truncated(expert_task) ==
    IF expert_task.state = "completed" /\ expert_task.message.present
    THEN Slice(expert_task.message.parts[1], 100)
    ELSE StatusPlaceholder(expert_task.state)

\* the return without the test of status.message: no message, no text
ConsultResult_NoMessageCheck(expert_task) ==
    IF expert_task.state = "completed"
    THEN (IF expert_task.message.present THEN expert_task.message.parts[1] ELSE "")
    ELSE StatusPlaceholder(expert_task.state)

\* manager_agent.py:215-221, what _consult_expert returns for the last task seen
ConsultResult(expert_task) ==
    IF expert_task.state = "completed" /\ expert_task.message.present
    THEN expert_task.message.parts[1]
    ELSE StatusPlaceholder(expert_task.state)

\* _consult_expert returns `text` and its loop counters go out of scope;
\* execute builds the prompt and awaits manager_agent.run
\* (manager_agent.py:73-92)
ConsultReturns(task, text, how, why) ==
    [task EXCEPT !.pc = "reason", !.expert_info = text, !.consult = how,
                 !.loop_exit = why, !.polled = task.gets > 0,
                 !.attempts = 0, !.gets = 0, !.sleeps = 0, !.slept = 0]

\* a poll loop that raises when the ceiling is reached, failing the manager task
AfterFetch_FailsOnCeiling(task) ==
    IF LoopContinues(task.expert_task, task.attempts)
    THEN [task EXCEPT !.pc = "sleep"]
    ELSE IF task.expert_task.state \in TerminalStates
    THEN ConsultReturns(task, ConsultResult(task.expert_task),
                        IF task.expert_task.state = "completed" THEN "result" ELSE "status",
                        "terminal")
    ELSE ReportFailure([task EXCEPT !.loop_exit = "ceiling"],
                       ManagerFailText(TimeoutErrorText), TimeoutErrorText, FALSE)

\* manager_agent.py:193-221 after a task was fetched: the loop condition, then
\* either the next sleep or the return
AfterFetch(task) ==
    IF LoopContinues(task.expert_task, task.attempts)
    THEN [task EXCEPT !.pc = "sleep"]
    ELSE ConsultReturns(task, ConsultResult(task.expert_task),
                        IF task.expert_task.state = "completed" THEN "result" ELSE "status",
                        IF task.expert_task.state \in TerminalStates THEN "terminal"
                        ELSE "ceiling")

\* a poll loop without the try around get_task and a consultation without the
\* outer handler: the error of get_task reaches execute
Break_Propagates(task, why) ==
    IF why = "raise"
    THEN ReportFailure([task EXCEPT !.loop_exit = why],
                       ManagerFailText(TimeoutErrorText), TimeoutErrorText, FALSE)
    ELSE ConsultReturns(task, ConsultResult(task.expert_task),
                        IF task.expert_task.state = "completed" THEN "result" ELSE "status",
                        why)

\* a poll loop that goes on after a poll that failed, while attempts remain
Break_Retries(task, why) ==
    IF LoopContinues(task.expert_task, task.attempts)
    THEN [task EXCEPT !.pc = "sleep", !.loop_exit = why, !.attempts_left = TRUE]
    ELSE ConsultReturns(task, ConsultResult(task.expert_task),
                        IF task.expert_task.state = "completed" THEN "result" ELSE "status",
                        why)

\* manager_agent.py:208-213, break: the loop is left with the task last seen.
\* attempts_left: the counter was still below max_attempts
Break(task, why) ==
    [ConsultReturns(task, ConsultResult(task.expert_task),
                    IF task.expert_task.state = "completed" THEN "result" ELSE "status",
                    why)
        EXCEPT !.attempts_left = task.attempts < max_attempts]

\* a consultation without its except handlers: the error reaches execute
ConsultFails_Propagates(task, outcome) ==
    ReportFailure([task EXCEPT !.consult = IF outcome = "connect_error"
                                           THEN "connect_error" ELSE "error"],
                  ManagerFailText(TimeoutErrorText), TimeoutErrorText, FALSE)

\* manager_agent.py:225-231: the two except handlers of _consult_expert
ConsultFails(task, outcome) ==
    IF outcome = "connect_error"
    THEN ConsultReturns(task, ConnectPlaceholder, "connect_error", "none")
    ELSE ConsultReturns(task, CommErrorText(TimeoutErrorText), "error", "none")

\* manager_agent.py:91-114: the reply of the reasoning step, or the fallback
manager_reply(task, raised, reply) ==
    IF raised THEN FallbackReply(task.expert_info) ELSE reply

\* execute without the inner try: a reasoning step that raises fails the task
ManagerExecuteFinish_FailsOnRaise(task, raised, reply, completedRaises, reportRaises) ==
    LET t0 == [task EXCEPT !.reasoning = IF raised THEN "raised" ELSE "ok"]
        t1 == update_status(t0, t0.queue, "completed",
                            new_agent_message(final_response(reply)),
                            "execute", completedRaises)
    IN  IF raised
        THEN ReportFailure(t0, ManagerFailText(ReasoningError), ReasoningError, reportRaises)
        ELSE IF completedRaises
        THEN ReportFailure(t1, ManagerFailText(UpdaterError), UpdaterError, reportRaises)
        ELSE [t1 EXCEPT !.pc = "done"]

\* an execute that looks at the expert task once more before it assembles the
\* reply, and takes the answer when there is one by then
ManagerExecuteFinish_ReadsExpert(task, raised, reply, completedRaises, reportRaises) ==
    LET late == exp.store.state = "completed" /\ exp.store.message.present
        t0 == [task EXCEPT !.reasoning = IF raised THEN "raised" ELSE "ok",
                           !.expert_info = IF late THEN exp.store.message.parts[1] ELSE @]
        t1 == update_status(t0, t0.queue, "completed",
                            new_agent_message(final_response(manager_reply(t0, raised, reply))),
                            "execute", completedRaises)
    IN  IF completedRaises
        THEN ReportFailure(t1, ManagerFailText(UpdaterError), UpdaterError, reportRaises)
        ELSE [t1 EXCEPT !.pc = "done"]

\* manager_agent.py:91-136 and, when update_status raises, 138-152
ManagerExecuteFinish(task, raised, reply, completedRaises, reportRaises) ==
    LET t0 == [task EXCEPT !.reasoning = IF raised THEN "raised" ELSE "ok"]
        t1 == update_status(t0, t0.queue, "completed",
                            new_agent_message(final_response(manager_reply(task, raised, reply))),
                            "execute", completedRaises)
    IN  IF completedRaises
        THEN ReportFailure(t1, ManagerFailText(UpdaterError), UpdaterError, reportRaises)
        ELSE [t1 EXCEPT !.pc = "done"]

\* the expert's task store knows the id
Known(id) == exp.pc # "none" /\ exp.id = id

\* the result of a successful get-task request to the expert: the task as its
\* store holds it (manager_agent.py:200-205)
get_task(id) == [id |-> id, state |-> exp.store.state, message |-> exp.store.message]

\* a get-task request that hands the status message over and keeps none
on_get_task_Consumes(task) ==
    [task EXCEPT !.store = StoreRecord(task.store.state, NoMessage)]

\* the task after its request handler answered a get-task request: a read of
\* the task store, which leaves the task as it is
on_get_task(task) == task

\* response.root.result of send_message: the task the request created
\* (manager_agent.py:184-187)
SendResult == get_task(exp.id)

\* the manager's request handler receives a send-message request (test.py:124-136)
M_Accept ==
    /\ mgr.pc = "none"
    /\ \E msg \in Requests(Emails) :
         mgr' = [mgr EXCEPT !.pc = "accepted", !.message = msg]
    /\ UNCHANGED <<exp, faults, reads, tool, wait, duo>>

\* execute runs up to its first await
M_Begin ==
    /\ mgr.pc = "accepted"
    /\ \E closed \in BOOLEAN, updaterFail \in {"none", "submit", "start_work"},
          reportRaises \in BOOLEAN :
         LET failAt == FailAt(mgr, updaterFail)
             used   == FaultsUsed(failAt, reportRaises)
         IN  /\ failAt = "none" => ~reportRaises
             /\ used <= faults
             /\ faults' = faults - used
             /\ mgr' = ManagerExecuteBegin(mgr, closed, updaterFail, reportRaises)
    /\ UNCHANGED <<exp, reads, tool, wait, duo>>

\* get_client_from_agent_card_url returns or raises (manager_agent.py:170-184);
\* on success send_message is called and awaited
M_Card ==
    /\ mgr.pc = "card"
    /\ \E outcome \in {"ok", "connect_error", "timeout"} :
         mgr' = IF outcome = "ok" THEN [mgr EXCEPT !.pc = "send"]
                ELSE ConsultFails(mgr, outcome)
    /\ UNCHANGED <<exp, faults, reads, tool, wait, duo>>

\* the expert's request handler receives the manager's send-message request
\* and creates the task
E_Receive ==
    /\ mgr.pc = "send"
    /\ ~mgr.sent
    /\ exp.pc = "none"
    /\ \E id \in ExpertIds :
         exp' = [NoExpertTask EXCEPT
                    !.pc = "accepted", !.id = id, !.sender = "manager",
                    !.message = [well_formed |-> TRUE,
                                 text |-> expert_query(mgr.client_email)]]
    /\ mgr' = [mgr EXCEPT !.sent = TRUE]
    /\ UNCHANGED <<faults, reads, tool, wait, duo>>

\* send_message returns or raises (manager_agent.py:184-195, 222-231)
M_SendResponse ==
    /\ mgr.pc = "send"
    /\ \E outcome \in {"result", "no_result", "connect_error", "timeout"} :
         /\ outcome = "result" => mgr.sent
         /\ outcome \in {"no_result", "connect_error"} => ~mgr.sent
         /\ mgr' = IF outcome = "result"
                   THEN AfterFetch([mgr EXCEPT !.expert_task = SendResult,
                                               !.attempts = 0])
                   ELSE IF outcome = "no_result"
                   THEN ConsultReturns(mgr, NoResultText, "no_result", "none")
                   ELSE ConsultFails(mgr, outcome)
    /\ UNCHANGED <<exp, faults, reads, tool, wait, duo>>

\* asyncio.sleep(0.5) returns; attempts += 1; get_task is called and awaited
\* (manager_agent.py:196-203)
M_Sleep ==
    /\ mgr.pc = "sleep"
    /\ mgr' = [mgr EXCEPT !.pc = "get", !.attempts = @ + 1, !.sleeps = @ + 1,
                          !.slept = @ + SleepTenths, !.gets = @ + 1]
    /\ UNCHANGED <<exp, faults, reads, tool, wait, duo>>

\* get_task returns or raises (manager_agent.py:199-221)
M_GetTask ==
    /\ mgr.pc = "get"
    /\ \E outcome \in {"success", "non_success", "raise"} :
         /\ outcome = "success" => Known(mgr.expert_task.id)
         /\ mgr' = IF outcome = "success"
                   THEN AfterFetch([mgr EXCEPT !.expert_task = get_task(mgr.expert_task.id)])
                   ELSE Break(mgr, outcome)
         /\ exp' = IF outcome = "success" THEN on_get_task(exp) ELSE exp
    /\ UNCHANGED <<faults, reads, tool, wait, duo>>

\* manager_agent.run returns or raises; execute runs to its end
M_Reason ==
    /\ mgr.pc = "reason"
    /\ \E raised \in BOOLEAN, reply \in Replies,
          completedRaises \in BOOLEAN, reportRaises \in BOOLEAN :
         LET used == (IF completedRaises THEN 1 ELSE 0) + (IF reportRaises THEN 1 ELSE 0)
         IN  /\ reportRaises => completedRaises
             /\ used <= faults
             /\ faults' = faults - used
             /\ mgr' = ManagerExecuteFinish(mgr, raised, reply, completedRaises, reportRaises)
    /\ UNCHANGED <<exp, reads, tool, wait, duo>>

\* another client of the expert sends a get-task request for the expert task
\* once it is in a terminal state (before that, the manager's polls are the
\* get-task requests) and keeps what it returns (test.py:35-45); events: how
\* many Task Updater calls the task had seen by then
ClientGetTask ==
    /\ Known(exp.id)
    /\ exp.store.state \in TerminalStates
    /\ Len(reads) < MaxReads
    /\ reads' = Append(reads, [state |-> get_task(exp.id).state,
                               message |-> get_task(exp.id).message,
                               events |-> Len(exp.calls)])
    /\ exp' = on_get_task(exp)
    /\ UNCHANGED <<mgr, faults, tool, wait, duo>>

\* ------------------------------ the manager with a callee of any behaviour
\* the states a task of an A2A agent may be in (a2a.types.TaskState)
CalleeStates == {"submitted", "working", "input-required"} \cup TerminalStates

\* the tasks a callee may answer with for `id`: any state, with a status
\* message of one text part or with none
CalleeTasks(id) ==
    [id : {id}, state : CalleeStates,
     message : {NoMessage} \cup {new_agent_message(t) : t \in ExpertAnswers}]

\* send_message returns the task the callee created (manager_agent.py:184-195)
C_SendResponse ==
    /\ mgr.pc = "send"
    /\ ~mgr.sent
    /\ \E id \in ExpertIds : \E t \in CalleeTasks(id) :
         mgr' = AfterFetch([mgr EXCEPT !.expert_task = t, !.attempts = 0])
    /\ UNCHANGED <<exp, faults, reads, tool, wait, duo>>

\* get_task returns the task as the callee holds it (manager_agent.py:199-207)
C_GetTask ==
    /\ mgr.pc = "get"
    /\ \E t \in CalleeTasks(mgr.expert_task.id) :
         mgr' = AfterFetch([mgr EXCEPT !.expert_task = t])
    /\ UNCHANGED <<exp, faults, reads, tool, wait, duo>>

\* ------------------------------------- test.py: wait_for_task_completion
\* wait_for_task_completion was not called
NoWait ==
    [pc |-> "none", max_attempts |-> 0, attempts |-> 0, polls |-> 0, errors |-> 0,
     nap |-> 0, result |-> [id |-> NoId, state |-> "submitted", message |-> NoMessage]]

\* test.py:35 and 57, the loop condition and the TimeoutError after the loop
wait_loop(w) ==
    [w EXCEPT !.pc = IF w.attempts < w.max_attempts THEN "get" ELSE "timeout"]

\* test.py:32-35
wait_begin(t) == wait_loop([NoWait EXCEPT !.max_attempts = t * 2])

\* a helper that returns whatever task a successful poll gives
wait_after_get_ReturnsAny(w, outcome, task) ==
    IF outcome = "raise"
    THEN [w EXCEPT !.pc = "sleep", !.nap = ErrorSleepTenths, !.errors = @ + 1]
    ELSE IF outcome = "success"
    THEN [w EXCEPT !.pc = "returned", !.result = task]
    ELSE [w EXCEPT !.pc = "sleep", !.nap = SleepTenths, !.polls = @ + 1]

\* test.py:36-54 once get_task returned or raised: return the terminal task,
\* else sleep 0.5 s, or 1 s in the except clause
wait_after_get(w, outcome, task) ==
    IF outcome = "raise"
    THEN [w EXCEPT !.pc = "sleep", !.nap = ErrorSleepTenths, !.errors = @ + 1]
    ELSE IF outcome = "success" /\ task.state \in TerminalStates
    THEN [w EXCEPT !.pc = "returned", !.result = task]
    ELSE [w EXCEPT !.pc = "sleep", !.nap = SleepTenths, !.polls = @ + 1]

\* test.py:49-50 and 54-55, the sleep is over: attempts += 1, or += 2 in the
\* except clause; then the loop condition
wait_after_sleep(w) ==
    wait_loop([w EXCEPT !.attempts = @ + (IF w.nap = ErrorSleepTenths THEN 2 ELSE 1),
                        !.nap = 0])

\* the test calls wait_for_task_completion for the task its send created
\* (test.py:93-97)
W_Start ==
    /\ wait.pc = "none"
    /\ exp.pc # "none"
    /\ exp.sender = "client"
    /\ \E t \in (0..MaxWaitTime) \cup {max_wait_time} : wait' = wait_begin(t)
    /\ UNCHANGED <<mgr, exp, faults, reads, tool, duo>>

\* client.get_task returns or raises (test.py:37-47)
W_GetTask ==
    /\ wait.pc = "get"
    /\ \E outcome \in {"success", "non_success", "raise"} :
         /\ outcome = "success" => Known(exp.id)
         /\ wait' = wait_after_get(wait, outcome, get_task(exp.id))
         /\ exp' = IF outcome = "success" THEN on_get_task(exp) ELSE exp
    /\ UNCHANGED <<mgr, faults, reads, tool, duo>>

\* asyncio.sleep returns (test.py:49-50, 54-55)
W_Sleep ==
    /\ wait.pc = "sleep"
    /\ wait' = wait_after_sleep(wait)
    /\ UNCHANGED <<mgr, exp, faults, reads, tool, duo>>

\* the request handler calls cancel for the manager task
M_Cancel ==
    /\ mgr.pc \notin {"none", "accepted"}
    /\ mgr.cancels < MaxCancels
    /\ \E raises \in BOOLEAN :
         /\ raises => faults > 0
         /\ faults' = IF raises THEN faults - 1 ELSE faults
         /\ mgr' = cancel(mgr, raises)
    /\ UNCHANGED <<exp, reads, tool, wait, duo>>

\* ------------------------ two manager tasks of the one executor, at once
\* the two requests the manager's request handler runs execute for
Managers == {1, 2}

\* the client email of each request
DuoEmails ==
    <<"My name is Sarah Jones, Operations Manager at Global Retail Express. Details and a demo?",
      "This is Omar Haddad of Northwind Freight. What does Vision AI cost?">>

\* no task yet: m, the manager task of each request; e, the expert's tasks by
\* id; owner, the request whose send_message created the task; last_id, the
\* id of the expert task that was created last
NoDuo ==
    [m |-> [k \in Managers |-> NoManagerTask],
     e |-> [id \in ExpertIds |-> NoExpertTask],
     owner |-> [id \in ExpertIds |-> 0],
     last_id |-> NoId]

\* the result of a get-task request to the expert, read from its store by id
duo_get_task(id) ==
    [id |-> id, state |-> duo.e[id].store.state, message |-> duo.e[id].store.message]

\* a consultation that polls the id an attribute of the executor holds, which
\* the latest send_message of any task has set
poll_id_Shared(task) == duo.last_id

\* manager_agent.py:199-203: the id polled is that of the local expert_task
poll_id(task) == task.expert_task.id

\* the request handler accepts a request and creates its task
D_Accept ==
    \E k \in Managers :
        /\ duo.m[k].pc = "none"
        /\ duo' = [duo EXCEPT !.m[k] =
                      [NoManagerTask EXCEPT !.pc = "accepted",
                           !.message = [well_formed |-> TRUE, text |-> DuoEmails[k]]]]
        /\ UNCHANGED <<mgr, exp, faults, reads, tool, wait>>

\* execute of one task runs up to its first await
D_Begin ==
    \E k \in Managers :
        /\ duo.m[k].pc = "accepted"
        /\ duo' = [duo EXCEPT !.m[k] = ManagerExecuteBegin(duo.m[k], FALSE, "none", FALSE)]
        /\ UNCHANGED <<mgr, exp, faults, reads, tool, wait>>

\* get_client_from_agent_card_url returns; send_message is called and awaited
D_Card ==
    \E k \in Managers :
        /\ duo.m[k].pc = "card"
        /\ duo' = [duo EXCEPT !.m[k].pc = "send"]
        /\ UNCHANGED <<mgr, exp, faults, reads, tool, wait>>

\* the expert's request handler receives the send-message request of one
\* manager task and creates a task under a new id
D_Receive ==
    \E k \in Managers, id \in ExpertIds :
        /\ duo.m[k].pc = "send"
        /\ ~duo.m[k].sent
        /\ duo.e[id].pc = "none"
        /\ duo' = [duo EXCEPT
                      !.m[k].sent = TRUE,
                      !.e[id] = [NoExpertTask EXCEPT
                                    !.pc = "accepted", !.id = id, !.sender = "manager",
                                    !.message = [well_formed |-> TRUE,
                                                 text |-> expert_query(duo.m[k].client_email)]],
                      !.owner[id] = k,
                      !.last_id = id]
        /\ UNCHANGED <<mgr, exp, faults, reads, tool, wait>>

\* send_message returns the task its request created (manager_agent.py:184-195)
D_SendResponse ==
    \E k \in Managers, id \in ExpertIds :
        /\ duo.m[k].pc = "send"
        /\ duo.m[k].sent
        /\ duo.owner[id] = k
        /\ duo' = [duo EXCEPT !.m[k] =
                      AfterFetch([duo.m[k] EXCEPT !.expert_task = duo_get_task(id),
                                                  !.attempts = 0])]
        /\ UNCHANGED <<mgr, exp, faults, reads, tool, wait>>

\* asyncio.sleep(0.5) of one task returns; attempts += 1; get_task is called
D_Sleep ==
    \E k \in Managers :
        /\ duo.m[k].pc = "sleep"
        /\ duo' = [duo EXCEPT !.m[k] =
                      [duo.m[k] EXCEPT !.pc = "get", !.attempts = @ + 1, !.sleeps = @ + 1,
                                       !.slept = @ + SleepTenths, !.gets = @ + 1]]
        /\ UNCHANGED <<mgr, exp, faults, reads, tool, wait>>

\* get_task of one task returns the task (manager_agent.py:199-221)
D_GetTask ==
    \E k \in Managers :
        /\ duo.m[k].pc = "get"
        /\ poll_id(duo.m[k]) \in ExpertIds
        /\ duo' = [duo EXCEPT !.m[k] =
                      AfterFetch([duo.m[k] EXCEPT
                                     !.expert_task = duo_get_task(poll_id(duo.m[k]))])]
        /\ UNCHANGED <<mgr, exp, faults, reads, tool, wait>>

\* manager_agent.run of one task returns or raises; its execute runs to its end
D_Reason ==
    \E k \in Managers, raised \in BOOLEAN, reply \in Replies :
        /\ duo.m[k].pc = "reason"
        /\ duo' = [duo EXCEPT !.m[k] =
                      ManagerExecuteFinish(duo.m[k], raised, reply, FALSE, FALSE)]
        /\ UNCHANGED <<mgr, exp, faults, reads, tool, wait>>

\* execute of one expert task runs up to its first await
DE_Begin ==
    \E id \in ExpertIds :
        /\ duo.e[id].pc = "accepted"
        /\ duo' = [duo EXCEPT !.e[id] = ExpertExecuteBegin(duo.e[id], FALSE, "none", FALSE)]
        /\ UNCHANGED <<mgr, exp, faults, reads, tool, wait>>

\* expert_agent.run of one expert task returns or raises; its execute runs to
\* its end
DE_Run ==
    \E id \in ExpertIds, raised \in BOOLEAN, answer \in ExpertAnswers \ {""} :
        /\ duo.e[id].pc = "run"
        /\ duo' = [duo EXCEPT !.e[id] =
                      ExpertExecuteFinish(duo.e[id], raised, answer, FALSE, FALSE)]
        /\ UNCHANGED <<mgr, exp, faults, reads, tool, wait>>

\* ----------------------------------------------------------- specification
\* no task yet; every Task Updater call succeeds
Init ==
    /\ mgr = NoManagerTask
    /\ exp = NoExpertTask
    /\ faults = 0
    /\ reads = <<>>
    /\ tool = NoToolCall
    /\ wait = NoWait
    /\ duo = NoDuo

\* no task yet; up to MaxFaults Task Updater calls raise
InitFaults ==
    /\ mgr = NoManagerTask
    /\ exp = NoExpertTask
    /\ faults \in 0..MaxFaults
    /\ reads = <<>>
    /\ tool = NoToolCall
    /\ wait = NoWait
    /\ duo = NoDuo

\* the steps of the two executors and of the network between them
Step ==
    \/ M_Begin
    \/ M_Card
    \/ E_Receive
    \/ M_SendResponse
    \/ M_Sleep
    \/ M_GetTask
    \/ M_Reason
    \/ E_Begin
    \/ E_Run

Next ==
    \/ M_Accept
    \/ ClientSend
    \/ M_Cancel
    \/ E_Cancel
    \/ Step

Spec == Init /\ [][Next]_vars

\* the same program with Task Updater calls that raise
SpecFaults == InitFaults /\ [][Next]_vars

\* every await of the executors and of the network calls returns or raises,
\* so every enabled step of execute is eventually taken; cancel and the
\* arrival of requests are up to the clients
LiveSpec == Spec /\ WF_vars(Step)

\* the two agents and a client that polls the expert task
NextClient ==
    \/ Next
    \/ ClientGetTask

SpecClient == Init /\ [][NextClient]_vars

\* the expert agent alone, with the tools of its reasoning step
NextTools ==
    \/ ClientSend
    \/ E_Begin
    \/ E_Tool
    \/ E_Run
    \/ E_Cancel

SpecTools == Init /\ [][NextTools]_vars

\* two manager tasks at once, with the expert tasks they create
NextTwo ==
    \/ D_Accept
    \/ D_Begin
    \/ D_Card
    \/ D_Receive
    \/ D_SendResponse
    \/ D_Sleep
    \/ D_GetTask
    \/ D_Reason
    \/ DE_Begin
    \/ DE_Run

SpecTwo == Init /\ [][NextTwo]_vars

\* the manager agent with a callee that answers with any task
NextCallee ==
    \/ M_Accept
    \/ M_Begin
    \/ M_Card
    \/ C_SendResponse
    \/ M_Sleep
    \/ C_GetTask
    \/ M_Reason

SpecCallee == Init /\ [][NextCallee]_vars

\* the expert agent and the test client that waits for its task
NextWait ==
    \/ ClientSend
    \/ E_Begin
    \/ E_Run
    \/ E_Cancel
    \/ W_Start
    \/ W_GetTask
    \/ W_Sleep

SpecWait == Init /\ [][NextWait]_vars

\* ================================================================== claims

\* a sequence of states that is a prefix of submitted, working, one terminal state
IsLifecyclePrefix(states) ==
    /\ Len(states) <= 3
    /\ Len(states) >= 1 => states[1] = "submitted"
    /\ Len(states) >= 2 => states[2] = "working"
    /\ Len(states) >= 3 => states[3] \in TerminalStates

\* C1: for the manager task and for the expert task, the sequence of states
\* recorded so far is a prefix of submitted, working, one terminal state; so
\* nothing is recorded after a terminal state.
C1_LifecyclePrefix ==
    /\ IsLifecyclePrefix(States(mgr))
    /\ IsLifecyclePrefix(States(exp))

\* C2: a caller polling get-task eventually sees every accepted task in a
\* terminal state, when every await returns or raises.
C2_EventuallyTerminal ==
    /\ (mgr.pc # "none") ~> (mgr.store.state \in TerminalStates)
    /\ (exp.pc # "none") ~> (exp.store.state \in TerminalStates)

\* C3: in the poll loop of _consult_expert every get_task follows a sleep of
\* 0.5 s, at most max_attempts get_task calls are made, a get_task is issued
\* only while the task last fetched is in no terminal state, the loop is left
\* at once when a fetched task is in any terminal state, and a send response
\* that carries a terminal state leads to no sleep and no get_task.
C3_PollLoop ==
    [][ /\ mgr'.gets > mgr.gets =>
              /\ mgr.pc = "sleep"
              /\ mgr'.gets = mgr.gets + 1
              /\ mgr'.sleeps = mgr'.gets
              /\ mgr'.slept = SleepTenths * mgr'.gets
              /\ mgr'.gets <= max_attempts
              /\ mgr.expert_task.state \notin TerminalStates
        /\ mgr'.pc \in {"sleep", "get"} =>
              mgr'.expert_task.state \notin TerminalStates
        /\ (mgr.pc \in {"send", "get"} /\ mgr'.pc \notin {"send", "get"}
              /\ mgr'.expert_task.state \in TerminalStates) =>
              /\ mgr'.pc = "reason"
              /\ mgr'.loop_exit = "terminal"
              /\ mgr'.polled = (mgr.pc = "get")
      ]_vars

\* C3 witness: the loop was left on a fetched terminal state other than completed
C3_Witness ==
    /\ mgr.pc = "reason"
    /\ mgr.loop_exit = "terminal"
    /\ mgr.polled
    /\ mgr.expert_task.state = "canceled"

\* C4: when _consult_expert saw the expert task completed, the string it
\* returned is the text of the first part of the message the expert attached
\* to its completed status, whatever that text is.
C4_ResultIsFirstTextPart ==
    (mgr.pc \in {"reason", "done"} /\ mgr.expert_task.state = "completed") =>
        /\ mgr.consult = "result"
        /\ mgr.expert_task.message.present
        /\ mgr.expert_info = mgr.expert_task.message.parts[1]
        /\ \E i \in 1..Len(exp.calls) :
              /\ exp.calls[i].state = "completed"
              /\ ~exp.calls[i].raised
              /\ exp.calls[i].message.parts[1] = mgr.expert_info

\* C4 witness: the consultation returned the expert's long fallback text
C4_Witness ==
    /\ mgr.pc = "reason"
    /\ mgr.expert_task.state = "completed"
    /\ mgr.polled
    /\ mgr.expert_info = ExpertFallbackText(expert_query(mgr.client_email))

\* the last element of a non-empty sequence
Last(seq) == seq[Len(seq)]

\* execute made a Task Updater call for `state`
Attempted(task, state) ==
    \E i \in 1..Len(task.calls) :
        task.calls[i].by = "execute" /\ task.calls[i].state = state

\* sub occurs in text
Contains(text, sub) ==
    \E i \in 1..(Len(text) - Len(sub) + 1) : SubSeq(text, i, i + Len(sub) - 1) = sub

\* the texts a completed manager task may carry for a consultation result
AssembledReplies(expert_info) ==
    {final_response(r) : r \in Replies \cup {FallbackReply(expert_info)}}

\* C5: when the poll ceiling is reached with the expert task in no terminal
\* state, _consult_expert returns the placeholder naming that state, no
\* exception reaches execute, and execute ends by recording completed with an
\* assembled email reply, never failed.
C5_CeilingStillCompletes ==
    mgr.loop_exit = "ceiling" =>
        /\ mgr.expert_task.state \notin TerminalStates
        /\ mgr.expert_info = StatusPlaceholder(mgr.expert_task.state)
        /\ mgr.error = ""
        /\ mgr.pc \in {"reason", "done"}
        /\ mgr.pc = "done" =>
              /\ Last(ByExecute(mgr)).state = "completed"
              /\ ~Last(ByExecute(mgr)).raised
              /\ Last(ByExecute(mgr)).message.present
              /\ Last(ByExecute(mgr)).message.parts[1] \in AssembledReplies(mgr.expert_info)
              /\ ~Attempted(mgr, "failed")

\* C5 witness: the manager task completed after twenty polls of a working expert task
C5_Witness ==
    /\ mgr.pc = "done"
    /\ mgr.loop_exit = "ceiling"
    /\ mgr.polled
    /\ mgr.expert_task.state = "working"
    /\ Last(ByExecute(mgr)).state = "completed"

\* C6: after a connection failure on agent-card discovery or on send_message
\* _consult_expert returns the non-empty "expert unavailable" placeholder,
\* no exception reaches execute, and execute goes on to its reasoning step.
C6_UnreachablePlaceholder ==
    mgr.consult = "connect_error" =>
        /\ mgr.expert_info = ConnectPlaceholder
        /\ Len(mgr.expert_info) > 0
        /\ mgr.pc \in {"reason", "done"}
        /\ mgr.pc = "reason" => mgr.error = ""
        /\ mgr.pc = "done" => mgr.reasoning # "none"

\* C6 witness: the expert was unreachable and the reasoning step ran
C6_Witness ==
    /\ mgr.consult = "connect_error"
    /\ mgr.pc = "done"
    /\ mgr.reasoning = "ok"
    /\ ~mgr.sent

\* a transport-level error ended the consultation
TransportError(task) ==
    task.consult \in {"connect_error", "error"} \/ task.loop_exit = "raise"

\* C7 as claimed: every transport-level error gives the same placeholder as
\* the other failure outcomes (a terminal state other than completed, the
\* ceiling), which name the state last seen.
C7_SamePlaceholder ==
    TransportError(mgr) =>
        mgr.expert_info = StatusPlaceholder(mgr.expert_task.state)

\* C7 as amended: every transport-level error of the submission or of a poll
\* is caught in _consult_expert and becomes a non-empty placeholder, whose
\* text depends on the error: the "expert unavailable" text for a connection
\* error of the submission, the "communication error" text with the error for
\* any other error of the submission, the text naming the last state seen for
\* an error of a poll.  None reaches execute and none makes the task failed.
C7_TransportErrorsCaught ==
    TransportError(mgr) =>
        /\ mgr.consult = "connect_error" => mgr.expert_info = ConnectPlaceholder
        /\ mgr.consult = "error" => mgr.expert_info = CommErrorText(TimeoutErrorText)
        /\ mgr.loop_exit = "raise" =>
              /\ mgr.expert_task.state \notin TerminalStates
              /\ mgr.expert_info = StatusPlaceholder(mgr.expert_task.state)
        /\ Len(mgr.expert_info) > 0
        /\ mgr.error = ""
        /\ mgr.pc \in {"reason", "done"}
        /\ mgr.pc = "done" =>
              /\ mgr.reasoning # "none"
              /\ Last(ByExecute(mgr)).state = "completed"
              /\ ~Attempted(mgr, "failed")

\* C7 witness: a poll raised while the expert task was working and the manager completed
C7_Witness ==
    /\ mgr.loop_exit = "raise"
    /\ mgr.expert_task.state = "working"
    /\ mgr.pc = "done"
    /\ Last(ByExecute(mgr)).state = "completed"

\* the Task Updater calls of execute for a terminal state
TerminalByExecute(task) ==
    SelectSeq(ByExecute(task), LAMBDA c : c.state \in TerminalStates)

C9_ReasoningFallbackCompletes ==
    (mgr.pc = "done" /\ mgr.reasoning = "raised") =>
        /\ Last(ByExecute(mgr)).state = "completed"
        /\ ~Last(ByExecute(mgr)).raised
        /\ ~Attempted(mgr, "failed")
        /\ Last(ByExecute(mgr)).message.present
        /\ Last(ByExecute(mgr)).message.parts[1] =
               final_response(FallbackReply(mgr.expert_info))
        /\ Contains(Last(ByExecute(mgr)).message.parts[1],
                    "To: Sarah Jones\n")
        /\ Contains(Last(ByExecute(mgr)).message.parts[1],
                    Slice(mgr.expert_info, InfoSlice) \o "...")

\* C9 witness: the reasoning step raised after a consultation that returned a
\* text longer than InfoSlice
C9_Witness ==
    /\ mgr.pc = "done"
    /\ mgr.reasoning = "raised"
    /\ mgr.consult = "result"
    /\ Len(mgr.expert_info) > InfoSlice

\* the exception that reached the except handler of execute, "" when none did:
\* the first Task Updater call that raised, else the read of an input
\* without text
Raised(task) ==
    IF \E i \in 1..Len(task.calls) :
          task.calls[i].by = "execute" /\ task.calls[i].raised
                                       /\ task.calls[i].state # "failed"
    THEN UpdaterError
    ELSE IF task.pc = "done" /\ ~task.message.well_formed THEN ReadError
    ELSE ""

\* execute has ended with its last Task Updater call the one its outcome demands
Reported(task, prefix) ==
    task.pc = "done" =>
        /\ Raised(task) # "" =>
              /\ Last(ByExecute(task)).state = "failed"
              /\ Last(ByExecute(task)).message.present
              /\ Last(ByExecute(task)).message.parts[1] = prefix \o Raised(task)
        /\ Raised(task) = "" =>
              /\ Last(ByExecute(task)).state = "completed"
              /\ ~Last(ByExecute(task)).raised

ByCancel(task) == SelectSeq(task.calls, LAMBDA c : c.by = "cancel")

\* the Task Updater calls of execute for `state`
CallsFor(task, state) == SelectSeq(ByExecute(task), LAMBDA c : c.state = state)

\* no exception left execute or cancel; an update to failed that raised was
\* the last call of execute, made once, and execute has returned
Swallowed(task) ==
    /\ ~task.propagated
    /\ Len(CallsFor(task, "failed")) <= 1
    /\ Len(ByCancel(task)) = task.cancels
    /\ \A i \in 1..Len(ByExecute(task)) :
          (ByExecute(task)[i].state = "failed" /\ ByExecute(task)[i].raised) =>
              /\ i = Len(ByExecute(task))
              /\ task.pc = "done"
              /\ task.store.state # "failed"

\* C11: when the update that reports a failure raises, execute swallows the
\* exception, makes no second update and returns; neither execute nor cancel
\* of either executor lets an exception reach the request handler.
C11_UpdateErrorSwallowed ==
    /\ Swallowed(mgr)
    /\ Swallowed(exp)

\* C11 witness: the manager's update to failed raised after its input had no
\* text, and execute returned
C11_Witness ==
    /\ mgr.pc = "done"
    /\ ~mgr.message.well_formed
    /\ Last(ByExecute(mgr)).state = "failed"
    /\ Last(ByExecute(mgr)).raised
    /\ ~mgr.propagated

\* the states execute asked the Task Updater for, in order
ExecuteStates(task) == [i \in 1..Len(ByExecute(task)) |-> ByExecute(task)[i].state]

\* execute was handed a closed queue: all its updates went to the queue it
\* created, none to the closed one; they are submitted, working and then the
\* terminal update, completed unless the input had no text
Recovered(task) ==
    task.closed =>
        /\ task.queue = "fresh"
        /\ \A i \in 1..Len(ByExecute(task)) :
              /\ ByExecute(task)[i].queue = "fresh"
              /\ ~ByExecute(task)[i].raised
        /\ Len(ExecuteStates(task)) >= 2
        /\ SubSeq(ExecuteStates(task), 1, 2) = <<"submitted", "working">>
        /\ task.pc = "done" =>
              /\ Len(ExecuteStates(task)) = 3
              /\ task.message.well_formed => ExecuteStates(task)[3] = "completed"
              /\ ExecuteStates(task)[3] # "completed" =>
                    /\ ExecuteStates(task)[3] = "failed"
                    /\ task.error = ReadError

\* C12: when execute is handed a closed event queue it pushes nothing onto
\* that queue, goes on with a queue and a Task Updater of its own for the
\* same task, and runs through submit, start_work and its usual terminal
\* update; the closed queue alone never leads to failed.
C12_ClosedQueueRecovered ==
    /\ Recovered(mgr)
    /\ Recovered(exp)

\* C12 witness: both executors were handed a closed queue and completed
C12_Witness ==
    /\ mgr.closed /\ mgr.pc = "done"
    /\ exp.closed /\ exp.pc = "done"
    /\ ExecuteStates(mgr) = <<"submitted", "working", "completed">>
    /\ ExecuteStates(exp) = <<"submitted", "working", "completed">>

\* C13: a terminal state the task store holds for a task is never replaced:
\* not by cancel after execute recorded completed or failed, not by execute
\* after cancel recorded canceled.
C13_TerminalNeverOverwritten ==
    [][ /\ mgr.store.state \in TerminalStates => mgr'.store = mgr.store
        /\ exp.store.state \in TerminalStates => exp'.store = exp.store
      ]_vars

\* the one status event of a cancel
CanceledEvent ==
    [state |-> "canceled", message |-> NoMessage, by |-> "cancel",
     queue |-> "handler", raised |-> FALSE]

\* `after` is `before` with one more cancel counted, the canceled event added
\* and canceled recorded; every local of execute, its position included, is
\* as it was
OnlyCanceled(before, after) ==
    after = [before EXCEPT !.cancels = @ + 1,
                           !.calls = Append(@, CanceledEvent),
                           !.store = StoreRecord("canceled", NoMessage)]

\* C14: a cancel makes one status update, to canceled, and changes nothing
\* else: the execute of the same task stays where it is and later runs on to
\* its own terminal update, and the other task is left as it was.
C14_CancelOnlyMarks ==
    [][ /\ mgr'.cancels # mgr.cancels => (OnlyCanceled(mgr, mgr') /\ exp' = exp)
        /\ exp'.cancels # exp.cancels => (OnlyCanceled(exp, exp') /\ mgr' = mgr)
        /\ (mgr'.pc = "done" /\ mgr'.message.well_formed) => Attempted(mgr', "completed")
        /\ (exp'.pc = "done" /\ exp'.message.well_formed) => Attempted(exp', "completed")
      ]_vars

\* C14 witness: the manager task was canceled while execute was between its
\* start and its end; the poll loop and the reasoning step still ran and
\* execute recorded completed afterwards
C14_Witness ==
    /\ mgr.pc = "done"
    /\ mgr.polled
    /\ mgr.reasoning = "ok"
    /\ States(mgr) = <<"submitted", "working", "canceled", "completed">>
    /\ exp.cancels = 0

\* the place of a state in the lifecycle
Rank(state) ==
    IF state = "submitted" THEN 0 ELSE IF state = "working" THEN 1 ELSE 2

\* the status events of a task on the queue the request handler reads, in the
\* order they were pushed
Observed(task) == SelectSeq(Pushed(task), LAMBDA c : c.queue = "handler")

\* no event of a later place in the lifecycle comes before one of an earlier place
InOrder(events) ==
    \A i, j \in 1..Len(events) : i < j => Rank(events[i].state) <= Rank(events[j].state)

\* what get-task returns is the last event the handler's queue delivered
StoreIsLastObserved(task) ==
    IF Observed(task) = <<>> THEN task.store = StoreRecord("submitted", NoMessage)
    ELSE task.store = StoreRecord(Last(Observed(task)).state, Last(Observed(task)).message)

\* C15: for each task the status events come in the order execute applied
\* them, submitted before working before any terminal state; what get-task
\* returns is the last of them, and the states the manager's successive polls
\* of the expert task return never go back in the lifecycle.
C15_EventsInOrder ==
    [][ /\ InOrder(Pushed(mgr')) /\ InOrder(Pushed(exp'))
        /\ StoreIsLastObserved(mgr') /\ StoreIsLastObserved(exp')
        /\ mgr.sent => Rank(mgr'.expert_task.state) >= Rank(mgr.expert_task.state)
      ]_vars

\* C15 witness: the manager polled the expert task up to completed, the last
\* of its three events
C15_Witness ==
    /\ mgr.polled
    /\ mgr.expert_task.state = "completed"
    /\ exp.sender = "manager"
    /\ States(exp) = <<"submitted", "working", "completed">>

HasPrefix(text, prefix) ==
    Len(text) >= Len(prefix) /\ SubSeq(text, 1, Len(prefix)) = prefix

\* C17: search_documents and calculate return a non-empty descriptive text on
\* every input and on every failure underneath (no index, a query that
\* raises, an expression that is no expression, an unknown name, a division
\* by zero) and never raise; the task whose reasoning step called the tool
\* ends completed, never failed.
C17_ToolErrorsAreText ==
    tool.name # "none" =>
        /\ ~tool.raised
        /\ Len(tool.text) > 0
        /\ tool.name = "calculate" =>
              \/ HasPrefix(tool.text, "Result: ")
              \/ HasPrefix(tool.text, "Calculation error: ")
        /\ tool.name = "search_documents" =>
              \/ tool.text \in SearchAnswers
              \/ tool.text = "Document search error: " \o SearchError
              \/ tool.text = "The document search system is unavailable."
        /\ exp.pc = "done" =>
              /\ Last(ByExecute(exp)).state = "completed"
              /\ ~Attempted(exp, "failed")

\* C17 witness: calculate was given a dangling operator, returned the error
\* text, and the task completed with that text as its answer
C17_Witness ==
    /\ tool.name = "calculate"
    /\ tool.input = "7*"
    /\ tool.text = "Calculation error: " \o SyntaxErrorText
    /\ exp.pc = "done"
    /\ Last(ByExecute(exp)).state = "completed"
    /\ Last(ByExecute(exp)).message.parts[1] = tool.text

\* expressions that use something outside the whitelist
NotWhitelisted == {"import os", "open('x')", "__import__('os')"}

\* C18: in the expert agent process (first_agent.py run as the script)
\* calculate returns a result text containing 56 for "7*8" and an error text
\* for "import os" and for every expression outside the whitelist.
C18_CalculateAsDeployed ==
    (tool.name = "calculate" /\ tool.main) =>
        /\ tool.input = "7*8" =>
              /\ HasPrefix(tool.text, "Result: ")
              /\ Contains(tool.text, "56")
        /\ tool.input \in NotWhitelisted => HasPrefix(tool.text, "Calculation error: ")

\* the header block, the body and the signature block of a reply, and nothing else
Composed(reply) ==
       "To: " \o reply.client_name
    \o "\n From: AI Solutions Corp Sales Team"
    \o "\n Subject: " \o reply.response_subject
    \o "\n\n " \o reply.response_body
    \o "\n\n " \o SignatureBlock

\* the reply execute composed its answer from
ReplyUsed(task) ==
    IF task.reasoning = "raised" THEN {FallbackReply(task.expert_info)} ELSE Replies

Consulting(task) == task.pc \in {"card", "send", "sleep", "get"}

\* C20: in every execute of the manager the order is submit, start_work, the
\* return of _consult_expert, the reasoning step, the terminal update: during
\* the whole consultation and poll loop working is the last status execute
\* recorded (and what get-task returns, on the handler's queue and without a
\* cancel), and completed is recorded only after _consult_expert returned,
\* with the expert's text or with a placeholder, and the reasoning step ran.
C20_ConsultationBlocks ==
    /\ Consulting(mgr) =>
          /\ ExecuteStates(mgr) = <<"submitted", "working">>
          /\ \A i \in 1..2 : ~ByExecute(mgr)[i].raised
          /\ mgr.consult = "none"
          /\ mgr.reasoning = "none"
          /\ (mgr.queue = "handler" /\ mgr.cancels = 0) => mgr.store.state = "working"
    /\ mgr.pc = "reason" =>
          /\ ExecuteStates(mgr) = <<"submitted", "working">>
          /\ mgr.consult # "none"
          /\ mgr.reasoning = "none"
    /\ Attempted(mgr, "completed") =>
          /\ mgr.pc = "done"
          /\ SubSeq(ExecuteStates(mgr), 1, 3) = <<"submitted", "working", "completed">>
          /\ mgr.consult # "none"
          /\ mgr.reasoning # "none"

\* C20 witness: the manager is in its twentieth poll with working as its last
\* status, and the expert task not yet terminal
C20_Witness ==
    /\ mgr.pc = "get"
    /\ mgr.gets = max_attempts
    /\ mgr.store.state = "working"
    /\ exp.store.state \notin TerminalStates

\* what the sleep in progress will add to the attempt counter
Pending(w) ==
    IF w.pc # "sleep" THEN 0 ELSE IF w.nap = ErrorSleepTenths THEN 2 ELSE 1

\* C21: wait_for_task_completion returns a task only in a terminal state, never
\* in submitted or working; it raises TimeoutError only when its counter has
\* reached max_wait_time * 2, a poll that did not raise counting 1 and a poll
\* that raised counting 2; below that it goes on polling, also after a poll
\* that raised.
C21_WaitReturnsTerminal ==
    /\ wait.pc = "returned" =>
          /\ wait.result.state \in TerminalStates
          /\ wait.attempts < wait.max_attempts
    /\ wait.pc = "timeout" =>
          /\ wait.attempts >= wait.max_attempts
          /\ wait.attempts <= wait.max_attempts + 1
          /\ wait.result = NoWait.result
    /\ wait.pc \in {"get", "sleep"} => wait.attempts < wait.max_attempts
    /\ wait.pc # "none" => wait.attempts + Pending(wait) = wait.polls + 2 * wait.errors

\* C21 witness: with the default of 30 s the helper timed out one past its
\* sixty attempts, after polls that raised and polls that did not
C21_Witness ==
    /\ wait.pc = "timeout"
    /\ wait.max_attempts = 2 * max_wait_time
    /\ wait.attempts = wait.max_attempts + 1
    /\ wait.errors > 1
    /\ wait.polls > 1

\* C22: one get_task that raises or answers with a non-success response ends
\* the poll loop at once, with attempts left or not: no further get_task is
\* made, _consult_expert returns the placeholder naming the state of the task
\* it last fetched, and execute goes on to its reasoning step, whatever the
\* expert task reaches afterwards.
C22_FailedPollEndsLoop ==
    mgr.loop_exit \in {"raise", "non_success"} =>
        /\ mgr.pc \in {"reason", "done"}
        /\ mgr.polled
        /\ mgr.gets = 0 /\ mgr.sleeps = 0
        /\ mgr.consult = "status"
        /\ mgr.expert_task.state \notin TerminalStates
        /\ mgr.expert_info = StatusPlaceholder(mgr.expert_task.state)
        /\ mgr.pc = "reason" => mgr.error = ""
        /\ mgr.pc = "done" => mgr.reasoning # "none"

\* C22 witness: a poll raised with attempts left while the expert task was
\* working; the manager finished with the placeholder and the expert task
\* completed all the same
C22_Witness ==
    /\ mgr.loop_exit = "raise"
    /\ mgr.attempts_left
    /\ mgr.pc = "done"
    /\ mgr.expert_info = StatusPlaceholder("working")
    /\ exp.store.state = "completed"

\* _consult_expert returned after a task of the callee was fetched
Fetched(task) == task.pc \in {"reason", "done"} /\ task.consult \in {"result", "status"}

\* C23: when the task last fetched is completed and carries no status message,
\* _consult_expert returns the placeholder naming completed, which is not
\* empty, and nothing is raised; it returns the text of the message only when
\* the state is completed and a message is there, and the placeholder naming
\* the state in every other case.
C23_CompletedWithoutMessage ==
    Fetched(mgr) =>
        /\ (mgr.expert_task.state = "completed" /\ ~mgr.expert_task.message.present) =>
              /\ mgr.expert_info = "Could not get an answer from the expert. Status: completed"
              /\ mgr.error = ""
              /\ mgr.pc = "done" => Last(ByExecute(mgr)).state = "completed"
        /\ (mgr.expert_task.state = "completed" /\ mgr.expert_task.message.present) =>
              mgr.expert_info = mgr.expert_task.message.parts[1]
        /\ mgr.expert_task.state # "completed" =>
              mgr.expert_info = StatusPlaceholder(mgr.expert_task.state)

\* C23 witness: a poll fetched the task completed without a message and the
\* manager completed with the placeholder
C23_Witness ==
    /\ Fetched(mgr)
    /\ mgr.polled
    /\ mgr.pc = "done"
    /\ mgr.expert_task.state = "completed"
    /\ ~mgr.expert_task.message.present
    /\ mgr.expert_info = StatusPlaceholder("completed")

\* the texts the expert task created for request k may complete with
OwnAnswers(k) == ExpertAnswers \cup {ExpertFallbackText(expert_query(DuoEmails[k]))}

\* manager task k holds nothing but its own email, its own expert task and what
\* that task's store gave
OwnConsultation(k) ==
    LET m  == duo.m[k]
        id == m.expert_task.id
    IN  /\ m.pc \notin {"none", "accepted"} => m.client_email = DuoEmails[k]
        /\ id # NoId =>
              /\ duo.owner[id] = k
              /\ duo.e[id].message.text = expert_query(DuoEmails[k])
              /\ Rank(m.expert_task.state) <= Rank(duo.e[id].store.state)
              /\ m.expert_task.message.present =>
                    /\ m.expert_task.state = duo.e[id].store.state
                    /\ m.expert_task.message = duo.e[id].store.message
              /\ m.consult = "result" =>
                    /\ m.expert_info = duo.e[id].store.message.parts[1]
                    /\ m.expert_info \in OwnAnswers(k)
        /\ (m.pc = "done" /\ m.reasoning = "raised") =>
              m.store.message = new_agent_message(final_response(FallbackReply(m.expert_info)))

\* the expert task created for request k holds the question of request k and
\* an answer to it
OwnExpertTask(id) ==
    LET e == duo.e[id]
        k == duo.owner[id]
    IN  e.pc # "none" =>
            /\ k \in Managers
            /\ e.message.text = expert_query(DuoEmails[k])
            /\ e.pc \in {"run", "done"} => e.user_message = e.message.text
            /\ e.store.message.present => e.store.message.parts[1] \in OwnAnswers(k)

\* C24: with two manager tasks at once, each polls the id its own send_message
\* returned and uses the result of its own expert task; none holds or writes
\* the state or message of the other's.
C24_TasksIsolated ==
    /\ \A k \in Managers : OwnConsultation(k)
    /\ \A id \in ExpertIds : OwnExpertTask(id)
    /\ \A i, j \in ExpertIds :
          (i # j /\ duo.owner[i] # 0) => duo.owner[i] # duo.owner[j]

\* C24 witness: task 1 sent its request after task 2 did, polled, and is done
\* with the answer to its own email while task 2, which started polling
\* before, still polls
C24_Witness ==
    /\ duo.m[1].pc = "done"
    /\ duo.m[1].polled
    /\ duo.m[1].consult = "result"
    /\ duo.m[1].expert_info = ExpertFallbackText(expert_query(DuoEmails[1]))
    /\ duo.last_id = duo.m[1].expert_task.id
    /\ duo.m[2].pc = "get"
    /\ duo.m[2].attempts > 1
    /\ duo.m[2].expert_task.id \in ExpertIds

\* the poll loop was left with the expert task in no terminal state: the
\* ceiling was reached, or a poll failed
Stopped(task) == task.loop_exit \in {"ceiling", "raise", "non_success"}

\* C25: once the poll loop was left at the ceiling or by a failed poll, no
\* step of the manager's execute touches the expert task and no get_task
\* follows; the expert's execute goes on and ends with its one terminal
\* status; what the manager holds of the consultation stays as it was, and the
\* reply it completes with is assembled from the placeholder, whatever the
\* expert task has become.
C25_StoppedPollingLeavesExpert ==
    /\ [][ Stopped(mgr) =>
              /\ mgr' # mgr => exp' = exp
              /\ exp' # exp => mgr' = mgr
              /\ mgr'.gets = 0 /\ mgr'.sleeps = 0
              /\ mgr'.expert_task = mgr.expert_task
              /\ mgr'.expert_info = StatusPlaceholder(mgr.expert_task.state)
              /\ mgr'.pc = "done" =>
                    /\ Last(ByExecute(mgr')).state = "completed"
                    /\ Last(ByExecute(mgr')).message.parts[1]
                           \in AssembledReplies(StatusPlaceholder(mgr.expert_task.state)) ]_vars
    /\ (Stopped(mgr) /\ exp.pc # "done")
           ~> (exp.pc = "done" /\ Len(TerminalByExecute(exp)) = 1)

\* C25 witness: the manager gave up at the ceiling and completed with the
\* placeholder in its fallback reply; the expert task completed with its
\* answer all the same
C25_Witness ==
    /\ mgr.loop_exit = "ceiling"
    /\ mgr.pc = "done"
    /\ mgr.reasoning = "raised"
    /\ mgr.expert_info = StatusPlaceholder("working")
    /\ exp.pc = "done"
    /\ exp.reasoning = "ok"
    /\ exp.store.state = "completed"
    /\ Len(exp.store.message.parts[1]) > 0

\* C26: the statuses execute emits after it replaced a closed queue become
\* visible to get-task: the store record of such a task does not stay in its
\* pre-execution state (submitted, as the request handler created it).
C26_RecoveredStatusVisible ==
    /\ (mgr.queue = "fresh") ~> (mgr.store.state # "submitted")
    /\ (exp.queue = "fresh") ~> (exp.store.state # "submitted")

====
